---- MODULE Spec2Model ----
(***************************************************************************)
(* A model of defenses.py: free adversarial training (free_adv_train),     *)
(* randomized-smoothing certification (SmoothedModel) and Neural Cleanse   *)
(* (NeuralCleanse.find_candidate_backdoor).                                *)
(*                                                                         *)
(* The three components share no state.  Each has its own specification    *)
(* (SpecTrain, SpecSmooth, SpecNC) over the one variable tuple; the        *)
(* variables of the other two components are parked at an idle value.      *)
(*                                                                         *)
(* Real-valued tensors are modelled in fixed point.  Every tensor          *)
(* operation of the source that the model covers is elementwise, so a      *)
(* tensor is a function from a small index set to integers.                *)
(***************************************************************************)
EXTENDS Integers, Sequences, FiniteSets

\* ---------------------------------------------------------------- bounds
\* free_adv_train
MaxData == 3
MaxBatch == 2
MaxM == 2
MaxEpochs == 2
MaxEps == 1
\* SmoothedModel
MaxSamples == 3
MaxInferBatch == 2
MaxClasses == 2
MaxSigma == 1
\* NeuralCleanse
MaxNiters == 2
MaxLoaderLen == 2
MaxStepSize == 1
UnitScale == 2

VARIABLES
    \* ---- free_adv_train
    tpc,          \* position in free_adv_train: "epoch", "batch", "replay", "done"
    dataSize,     \* len(data_tr)
    batch_size,   \* batch_size
    m,            \* replays of each batch
    epochs,       \* virtual epochs
    eps,          \* l_inf bound (fixed point)
    epoch,        \* loop variable of line 48
    i,            \* loop variable of line 49 (index of the current batch)
    replay,       \* replays of the current batch done so far (line 52)
    delta,        \* the perturbation buffer, one element per row
    clipped,      \* whether the clamp of line 72 changed an element in the last replay
    optSteps,     \* calls of optimizer.step() so far
    schedSteps,   \* calls of lr_scheduler.step() so far
    sinceSched,   \* calls of optimizer.step() since the last lr_scheduler.step()
    \* ---- SmoothedModel.certify
    spc,          \* position in certify: "start0", "sample0", "start1", "sample1",
                  \* "decide", "done" ("idle": not running)
    numClasses,   \* sample_output.shape[1]
    sigma,        \* self.sigma (fixed point)
    n0,           \* samples of the selection round
    n,            \* samples of the certification round
    alpha,        \* <<numerator, denominator>> of the confidence level
    sbatch,       \* batch_size of certify
    noise_batches,\* the chunks of noise still to classify, as their sizes
    counts,       \* the counts of the running _sample_under_noise call
    counts_0,     \* line 142
    counts_n,     \* line 146 (the name counts of certify)
    c,            \* line 143
    p_a,          \* line 147, in units of 1 / PGrid, rounded up
    result,       \* what certify returns: <<class or ABSTAIN, radius>>
    \* ---- NeuralCleanse.find_candidate_backdoor
    npc,          \* position: "outer" (line 200), "inner" (line 201), "done"
    niters,       \* self.niters
    loaderLen,    \* batches data_loader yields in one iteration over it
    step_size,    \* self.step_size (fixed point: 1.0 is UnitScale)
    it,           \* loop variable of line 200
    bi,           \* batches of the current iteration over data_loader consumed
    passes,       \* inner-loop passes done
    mask_init,    \* line 194
    trigger_init, \* line 195
    mask,         \* the tensor the name mask is bound to
    trigger,      \* the tensor the name trigger is bound to
    maskIsParam,  \* whether that tensor is the one the optimizer holds
    triggerIsParam,
    maskUsed,     \* mask as used for triggered_x in the last pass (line 207)
    triggerUsed,
    maskGrad,     \* mask.grad.sign() of the last pass
    triggerGrad,
    maskAfterOpt, \* the tensor bound to mask right after line 217, last pass
    triggerAfterOpt,
    ret           \* the value returned: <<mask, trigger>>

trainVars == <<tpc, dataSize, batch_size, m, epochs, eps, epoch, i, replay,
               delta, clipped, optSteps, schedSteps, sinceSched>>

smoothVars == <<spc, numClasses, sigma, n0, n, alpha, sbatch, noise_batches,
                counts, counts_0, counts_n, c, p_a, result>>

ncVars == <<npc, niters, loaderLen, step_size, it, bi, passes, mask_init,
            trigger_init, mask, trigger, maskIsParam, triggerIsParam, maskUsed,
            triggerUsed, maskGrad, triggerGrad, maskAfterOpt, triggerAfterOpt, ret>>

vars == <<trainVars, smoothVars, ncVars>>

\* ------------------------------------------------------------- helpers
Min(a, b) == IF a < b THEN a ELSE b

Max(a, b) == IF a > b THEN a ELSE b

\* np.ceil(a / b) for a >= 0, b >= 1
CeilDiv(a, b) == (a + b - 1) \div b

\* torch.sign of a gradient element
Signs == {-1, 0, 1}

\* Clamp without its lower bound
ClampNoLower(v, lo, hi) == IF v > hi THEN hi ELSE v

\* torch.clamp(v, lo, hi), elementwise
Clamp(v, lo, hi) == IF v < lo THEN lo ELSE IF v > hi THEN hi ELSE v

\* ------------------------------------------------------ free_adv_train
\* len(loader_tr): DataLoader without drop_last
LenLoader == CeilDiv(dataSize, batch_size)

\* SchedulerStepIters rounded down instead of up
SchedulerStepItersFloor == Max(1, dataSize \div batch_size)

\* line 44
SchedulerStepIters == CeilDiv(dataSize, batch_size)

\* inputs.shape[0] of batch number k (0-based) of one pass over the data
BatchLen(k) == Min(batch_size, dataSize - k * batch_size)

Rows == 1 .. batch_size

\* AddRows without the slice: every row of delta is updated
AddAllRows(d, b, sgn) ==
    [row \in DOMAIN d |-> d[row] + eps * sgn[IF row <= b THEN row ELSE 1]]

\* line 71: delta[:b] = delta[:b] + eps * inputs.grad.sign()
AddRows(d, b, sgn) ==
    [row \in DOMAIN d |-> IF row <= b THEN d[row] + eps * sgn[row] ELSE d[row]]

\* line 72: delta = torch.clamp(delta, -eps, eps)
ClampDelta(d) == [row \in DOMAIN d |-> Clamp(d[row], -eps, eps)]

\* line 38: torch.zeros((batch_size, ...))
ZeroDelta == [row \in Rows |-> 0]

TrainStart ==
    /\ dataSize \in 1 .. MaxData
    /\ batch_size \in 1 .. MaxBatch
    /\ m \in 0 .. MaxM
    /\ epochs \in 0 .. MaxEpochs
    /\ eps \in 0 .. MaxEps
    /\ tpc = "epoch"
    /\ epoch = 0
    /\ i = 0
    /\ replay = 0
    /\ delta = ZeroDelta
    /\ clipped = FALSE
    /\ optSteps = 0
    /\ schedSteps = 0
    /\ sinceSched = 0

\* line 48: for epoch in range(epochs)
EpochLoop ==
    /\ tpc = "epoch"
    /\ IF epoch < epochs
       THEN /\ tpc' = "batch"
            /\ i' = 0
       ELSE /\ tpc' = "done"
            /\ i' = i
    /\ UNCHANGED <<dataSize, batch_size, m, epochs, eps, epoch, replay, delta,
                   clipped, optSteps, schedSteps, sinceSched>>
    /\ UNCHANGED <<smoothVars, ncVars>>

\* line 49: for i, (inputs, targets) in enumerate(loader_tr)
BatchLoop ==
    /\ tpc = "batch"
    /\ IF i < LenLoader
       THEN /\ tpc' = "replay"
            /\ replay' = 0
            /\ epoch' = epoch
       ELSE /\ tpc' = "epoch"
            /\ epoch' = epoch + 1
            /\ replay' = replay
    /\ UNCHANGED <<dataSize, batch_size, m, epochs, eps, i, delta, clipped,
                   optSteps, schedSteps, sinceSched>>
    /\ UNCHANGED <<smoothVars, ncVars>>

\* lines 52-72: one replay of the current batch.  inputs.grad.sign() is any
\* element of {-1, 0, 1} per element: the gradient depends on the model, the
\* loss and the data, none of which the training loop constrains.  (inputs.grad
\* is never zeroed, so within a batch it is the sum of the replays' gradients;
\* the sign of that sum is again any of the three.)
Replay ==
    /\ tpc = "replay"
    /\ replay < m
    /\ \E sgn \in [1 .. BatchLen(i) -> Signs] :
         LET added == AddRows(delta, BatchLen(i), sgn)
         IN  /\ delta' = ClampDelta(added)
             /\ clipped' = (ClampDelta(added) # added)
    /\ optSteps' = optSteps + 1
    /\ sinceSched' = sinceSched + 1
    /\ replay' = replay + 1
    /\ UNCHANGED <<tpc, dataSize, batch_size, m, epochs, eps, epoch, i, schedSteps>>
    /\ UNCHANGED <<smoothVars, ncVars>>

\* lines 75-76, after the m replays of batch i
SchedulerCheck ==
    /\ tpc = "replay"
    /\ replay = m
    /\ IF (i + 1) % SchedulerStepIters = 0
       THEN /\ schedSteps' = schedSteps + 1
            /\ sinceSched' = 0
       ELSE UNCHANGED <<schedSteps, sinceSched>>
    /\ i' = i + 1
    /\ tpc' = "batch"
    /\ UNCHANGED <<dataSize, batch_size, m, epochs, eps, epoch, replay, delta,
                   clipped, optSteps>>
    /\ UNCHANGED <<smoothVars, ncVars>>

NextTrain ==
    \/ EpochLoop
    \/ BatchLoop
    \/ Replay
    \/ SchedulerCheck

\* ------------------------------------------------------- SmoothedModel
\* line 89
ABSTAIN == -1

Classes == 0 .. numClasses - 1

RECURSIVE SumUpTo(_, _)
\* f[0] + ... + f[k]
SumUpTo(f, k) == IF k < 0 THEN 0 ELSE f[k] + SumUpTo(f, k - 1)

Total(f) == SumUpTo(f, numClasses - 1)

RECURSIVE SumSeq(_)
SumSeq(q) == IF q = <<>> THEN 0 ELSE Head(q) + SumSeq(Tail(q))

\* Split without the smaller last chunk
SplitFullOnly(len, size) == [j \in 1 .. (len \div size) |-> size]

\* line 110: torch.split of a tensor of `len` rows into chunks of `size` rows,
\* the last one smaller when size does not divide len; an empty tensor gives
\* one empty chunk.  The chunks are given by their sizes.
Split(len, size) ==
    LET chunks == Max(CeilDiv(len, size), 1)
    IN  [j \in 1 .. chunks |-> IF j < chunks THEN size ELSE len - size * (chunks - 1)]

\* the scan of ArgmaxLast
RECURSIVE ArgmaxLastScan(_, _, _)
ArgmaxLastScan(cnt, k, best) ==
    IF k >= numClasses THEN best
    ELSE ArgmaxLastScan(cnt, k + 1, IF cnt[k] >= cnt[best] THEN k ELSE best)

\* Argmax that takes the last index of the maximum
ArgmaxLast(cnt) == ArgmaxLastScan(cnt, 1, 0)

RECURSIVE ArgmaxScan(_, _, _)
ArgmaxScan(cnt, k, best) ==
    IF k >= numClasses THEN best
    ELSE ArgmaxScan(cnt, k + 1, IF cnt[k] > cnt[best] THEN k ELSE best)

\* line 143: np.argmax, the first index of the maximum
Argmax(cnt) == ArgmaxScan(cnt, 1, 0)

RECURSIVE Pow(_, _)
Pow(b, e) == IF e = 0 THEN 1 ELSE b * Pow(b, e - 1)

RECURSIVE Binom(_, _)
Binom(nn, kk) == IF kk = 0 THEN 1 ELSE (Binom(nn - 1, kk - 1) * nn) \div kk

\* scipy.stats.norm.ppf at 0.50, 0.55, ..., 0.95, in thousandths
NormPpfTable == <<0, 126, 253, 385, 524, 674, 842, 1036, 1282, 1645>>

\* probabilities are held in units of 1 / PGrid
PGrid == 2 * Len(NormPpfTable)

RECURSIVE TailFrom(_, _, _)
\* PGrid^nobs * P(Binomial(nobs, j / PGrid) >= k), summed from t = k
TailFrom(nobs, t, j) ==
    IF t > nobs THEN 0
    ELSE Binom(nobs, t) * Pow(j, t) * Pow(PGrid - j, nobs - t) + TailFrom(nobs, t + 1, j)

\* Whether the Clopper-Pearson lower bound at level a for k successes out of
\* nobs is at most j / PGrid.  The bound is the p with
\* P(Binomial(nobs, p) >= k) = a (0 when k = 0), and that tail grows with p.
LowerBoundAtMost(k, nobs, a, j) ==
    TailFrom(nobs, k, j) * a[2] >= a[1] * Pow(PGrid, nobs)

\* line 147: proportion_confint(k, nobs, alpha=2 * a, method='beta')[0], the
\* lower end of the two-sided interval at level 2a, which is the one-sided
\* bound at level a; rounded up to the grid, which keeps `<= 0.5` exact.
ProportionConfintLower(k, nobs, a) ==
    CHOOSE j \in 0 .. PGrid :
        /\ LowerBoundAtMost(k, nobs, a, j)
        /\ \A h \in 0 .. j - 1 : ~LowerBoundAtMost(k, nobs, a, h)

\* line 153: scipy.stats.norm.ppf(j / PGrid) in thousandths; ppf(1) is +inf
NormPpf(j) ==
    IF j = PGrid THEN 1000000
    ELSE IF 2 * j >= PGrid THEN NormPpfTable[j - Len(NormPpfTable) + 1]
    ELSE -NormPpfTable[Len(NormPpfTable) - j + 1]

\* Abstains with a strict comparison
AbstainsStrict(p) == 2 * p < PGrid

\* line 149: p_a <= 0.5
Abstains(p) == 2 * p <= PGrid

Alphas == {<<1, 20>>, <<1, 4>>, <<1, 2>>}

SmoothIdle ==
    /\ spc = "idle"
    /\ numClasses = 0
    /\ sigma = 0
    /\ n0 = 0
    /\ n = 0
    /\ alpha = <<0, 1>>
    /\ sbatch = 0
    /\ noise_batches = <<>>
    /\ counts = <<>>
    /\ counts_0 = <<>>
    /\ counts_n = <<>>
    /\ c = 0
    /\ p_a = 0
    /\ result = <<>>

TrainIdle ==
    /\ tpc = "idle"
    /\ dataSize = 0
    /\ batch_size = 0
    /\ m = 0
    /\ epochs = 0
    /\ eps = 0
    /\ epoch = 0
    /\ i = 0
    /\ replay = 0
    /\ delta = <<>>
    /\ clipped = FALSE
    /\ optSteps = 0
    /\ schedSteps = 0
    /\ sinceSched = 0

\* SmoothedModel(model, sigma).certify(x, n0, n, alpha, batch_size) is called
SmoothStart ==
    /\ spc = "start0"
    /\ numClasses \in 1 .. MaxClasses
    /\ sigma \in 1 .. MaxSigma
    /\ n0 \in 0 .. MaxSamples
    /\ n \in 1 .. MaxSamples
    /\ alpha \in Alphas
    /\ sbatch \in 1 .. MaxInferBatch
    /\ noise_batches = <<>>
    /\ counts = <<>>
    /\ counts_0 = <<>>
    /\ counts_n = <<>>
    /\ c = 0
    /\ p_a = 0
    /\ result = <<>>

\* lines 105-110 of _sample_under_noise(x, samples, batch_size)
SampleBegin(samples, next) ==
    /\ counts' = [k \in Classes |-> 0]
    /\ noise_batches' = Split(samples, sbatch)
    /\ spc' = next

\* line 142: the call of the selection round
SampleStart0 ==
    /\ spc = "start0"
    /\ SampleBegin(n0, "sample0")
    /\ UNCHANGED <<numClasses, sigma, n0, n, alpha, sbatch, counts_0, counts_n,
                   c, p_a, result>>
    /\ UNCHANGED <<trainVars, ncVars>>

\* line 146: the call of the certification round
SampleStart1 ==
    /\ spc = "start1"
    /\ SampleBegin(n, "sample1")
    /\ UNCHANGED <<numClasses, sigma, n0, n, alpha, sbatch, counts_0, counts_n,
                   c, p_a, result>>
    /\ UNCHANGED <<trainVars, ncVars>>

\* lines 112-120: classify one chunk of noise; each of its rows adds one to
\* the count of the class the model gives it, which may be any class.
Classify ==
    /\ spc \in {"sample0", "sample1"}
    /\ noise_batches # <<>>
    /\ \E preds \in [Classes -> 0 .. Head(noise_batches)] :
         /\ Total(preds) = Head(noise_batches)
         /\ counts' = [k \in Classes |-> counts[k] + preds[k]]
    /\ noise_batches' = Tail(noise_batches)
    /\ UNCHANGED <<spc, numClasses, sigma, n0, n, alpha, sbatch, counts_0,
                   counts_n, c, p_a, result>>
    /\ UNCHANGED <<trainVars, ncVars>>

\* lines 122, 142-143: the selection round returns; c is its top class
Select ==
    /\ spc = "sample0"
    /\ noise_batches = <<>>
    /\ counts_0' = counts
    /\ c' = Argmax(counts)
    /\ spc' = "start1"
    /\ UNCHANGED <<numClasses, sigma, n0, n, alpha, sbatch, noise_batches,
                   counts, counts_n, p_a, result>>
    /\ UNCHANGED <<trainVars, ncVars>>

\* lines 122, 146-147: the certification round returns; lower bound on p_c
Bound ==
    /\ spc = "sample1"
    /\ noise_batches = <<>>
    /\ counts_n' = counts
    /\ p_a' = ProportionConfintLower(counts[c], n, alpha)
    /\ spc' = "decide"
    /\ UNCHANGED <<numClasses, sigma, n0, n, alpha, sbatch, noise_batches,
                   counts, counts_0, c, result>>
    /\ UNCHANGED <<trainVars, ncVars>>

\* lines 149-156
Decide ==
    /\ spc = "decide"
    /\ IF Abstains(p_a)
       THEN result' = <<ABSTAIN, 0>>
       ELSE result' = <<c, sigma * NormPpf(p_a)>>
    /\ spc' = "done"
    /\ UNCHANGED <<numClasses, sigma, n0, n, alpha, sbatch, noise_batches,
                   counts, counts_0, counts_n, c, p_a>>
    /\ UNCHANGED <<trainVars, ncVars>>

NextSmooth ==
    \/ SampleStart0
    \/ Classify
    \/ Select
    \/ SampleStart1
    \/ Bound
    \/ Decide

\* ------------------------------------------------------- NeuralCleanse
\* Every operation on mask and trigger is elementwise, so one element of each
\* stands for the whole tensor.
MaskIdx == {1}

TriggerIdx == {1}

\* line 227: the 3 of mask.repeat(3, 1, 1)
NumChannels == 3

\* values torch.rand draws: [0, 1)
RandValues == 0 .. UnitScale - 1

\* ClampUnit without its upper bound
ClampUnitLowerOnly(t) == [e \in DOMAIN t |-> IF t[e] < 0 THEN 0 ELSE t[e]]

\* lines 222, 225: torch.clamp(t, 0, 1), a new tensor
ClampUnit(t) == [e \in DOMAIN t |-> Clamp(t[e], 0, UnitScale)]

\* lines 221, 224: t -= self.step_size * t.grad.sign(), in place
SignStep(t, g) == [e \in DOMAIN t |-> t[e] - step_size * g[e]]

\* line 217: optimizer.step() as seen through the name bound to tensor t with
\* gradient sign g.  The optimizer updates the two tensors it was built with
\* (line 198).  While the name is still bound to one of them this is Adam's
\* first step, lr * g / (|g| + 1e-8), that is lr * sign(g).  A tensor the
\* optimizer does not hold is not changed by it.
OptimizerStep(t, isParam, g) ==
    IF isParam THEN [e \in DOMAIN t |-> t[e] - step_size * g[e]] ELSE t

\* line 227: mask.repeat(3, 1, 1)
RepeatChannels(t) == [ch \in 1 .. NumChannels |-> t]

\* MoreIters with an inclusive bound
MoreItersInclusive == it <= niters

\* line 200: for i in range(self.niters)
MoreIters == it < niters

NCIdle ==
    /\ npc = "idle"
    /\ niters = 0
    /\ loaderLen = 0
    /\ step_size = 0
    /\ it = 0
    /\ bi = 0
    /\ passes = 0
    /\ mask_init = <<>>
    /\ trigger_init = <<>>
    /\ mask = <<>>
    /\ trigger = <<>>
    /\ maskIsParam = FALSE
    /\ triggerIsParam = FALSE
    /\ maskUsed = <<>>
    /\ triggerUsed = <<>>
    /\ maskGrad = <<>>
    /\ triggerGrad = <<>>
    /\ maskAfterOpt = <<>>
    /\ triggerAfterOpt = <<>>
    /\ ret = <<>>

\* lines 193-198: random mask and trigger, and the optimizer built on them
NCStart ==
    /\ npc = "outer"
    /\ niters \in 0 .. MaxNiters
    /\ loaderLen \in 0 .. MaxLoaderLen
    /\ step_size \in 1 .. MaxStepSize
    /\ it = 0
    /\ bi = 0
    /\ passes = 0
    /\ mask_init \in [MaskIdx -> RandValues]
    /\ trigger_init \in [TriggerIdx -> RandValues]
    /\ mask = mask_init
    /\ trigger = trigger_init
    /\ maskIsParam = TRUE
    /\ triggerIsParam = TRUE
    /\ maskUsed = mask_init
    /\ triggerUsed = trigger_init
    /\ maskGrad = [e \in MaskIdx |-> 0]
    /\ triggerGrad = [e \in TriggerIdx |-> 0]
    /\ maskAfterOpt = mask_init
    /\ triggerAfterOpt = trigger_init
    /\ ret = <<>>

\* line 200, another iteration
OuterLoop ==
    /\ npc = "outer"
    /\ MoreIters
    /\ npc' = "inner"
    /\ bi' = 0
    /\ UNCHANGED <<niters, loaderLen, step_size, it, passes, mask_init,
                   trigger_init, mask, trigger, maskIsParam, triggerIsParam,
                   maskUsed, triggerUsed, maskGrad, triggerGrad, maskAfterOpt,
                   triggerAfterOpt, ret>>
    /\ UNCHANGED <<trainVars, smoothVars>>

\* line 201, data_loader is exhausted
InnerLoopEnd ==
    /\ npc = "inner"
    /\ bi >= loaderLen
    /\ npc' = "outer"
    /\ it' = it + 1
    /\ UNCHANGED <<niters, loaderLen, step_size, bi, passes, mask_init,
                   trigger_init, mask, trigger, maskIsParam, triggerIsParam,
                   maskUsed, triggerUsed, maskGrad, triggerGrad, maskAfterOpt,
                   triggerAfterOpt, ret>>
    /\ UNCHANGED <<trainVars, smoothVars>>

\* lines 202-225: one inner-loop pass.  The gradient signs are any element of
\* {-1, 0, 1}: they depend on the model and the batch.
Pass ==
    /\ npc = "inner"
    /\ bi < loaderLen
    /\ \E gm \in [MaskIdx -> Signs], gt \in [TriggerIdx -> Signs] :
         /\ maskGrad' = gm
         /\ triggerGrad' = gt
         /\ maskAfterOpt' = OptimizerStep(mask, maskIsParam, gm)
         /\ triggerAfterOpt' = OptimizerStep(trigger, triggerIsParam, gt)
         /\ mask' = ClampUnit(SignStep(OptimizerStep(mask, maskIsParam, gm), gm))
         /\ trigger' = ClampUnit(SignStep(OptimizerStep(trigger, triggerIsParam, gt), gt))
    /\ maskUsed' = mask
    /\ triggerUsed' = trigger
    \* lines 222, 225 bind the names to the new tensors torch.clamp returns
    /\ maskIsParam' = FALSE
    /\ triggerIsParam' = FALSE
    /\ bi' = bi + 1
    /\ passes' = passes + 1
    /\ UNCHANGED <<npc, niters, loaderLen, step_size, it, mask_init,
                   trigger_init, ret>>
    /\ UNCHANGED <<trainVars, smoothVars>>

\* lines 227-230
Finish ==
    /\ npc = "outer"
    /\ ~MoreIters
    /\ ret' = <<RepeatChannels(mask), trigger>>
    /\ npc' = "done"
    /\ UNCHANGED <<niters, loaderLen, step_size, it, bi, passes, mask_init,
                   trigger_init, mask, trigger, maskIsParam, triggerIsParam,
                   maskUsed, triggerUsed, maskGrad, triggerGrad, maskAfterOpt,
                   triggerAfterOpt>>
    /\ UNCHANGED <<trainVars, smoothVars>>

NextNC ==
    \/ OuterLoop
    \/ InnerLoopEnd
    \/ Pass
    \/ Finish

\* ------------------------------------------------------ specifications
TrainInit == TrainStart /\ SmoothIdle /\ NCIdle

SmoothInit == SmoothStart /\ TrainIdle /\ NCIdle

NCInit == NCStart /\ TrainIdle /\ SmoothIdle

SpecNC == NCInit /\ [][NextNC]_vars

SpecTrain == TrainInit /\ [][NextTrain]_vars

SpecSmooth == SmoothInit /\ [][NextSmooth]_vars

\* ------------------------------------------------ claims: free_adv_train

\* C1: every element of delta lies in [-eps, eps] in every state of the
\* training run: for the initial all-zero delta and after every perturbation
\* update, whatever the gradient signs were.
C1_DeltaWithinEps ==
    \A row \in DOMAIN delta : -eps <= delta[row] /\ delta[row] <= eps

\* C1 witness: a replay of a final batch smaller than batch_size has just run,
\* with eps > 0, and its clamp cut an element back into the interval.
C1_Witness ==
    /\ tpc = "replay"
    /\ replay >= 1
    /\ eps > 0
    /\ BatchLen(i) < batch_size
    /\ clipped

\* C5 (as stated): whenever lr_scheduler.step() is called, exactly
\* scheduler_step_iters calls of optimizer.step() have occurred since the
\* previous call of it (or since the start), for every m >= 1.
C5_SchedulerEveryStepIters ==
    [][(m >= 1 /\ schedSteps' # schedSteps) => sinceSched = SchedulerStepIters]_vars

\* passes over the data completed so far
PassesDone == IF tpc = "batch" /\ i = CeilDiv(dataSize, batch_size) THEN epoch + 1 ELSE epoch

C9_DeltaFrame ==
    [][/\ ~(tpc = "replay" /\ replay < m) => delta' = delta
       /\ \A row \in DOMAIN delta : row > BatchLen(i) => delta'[row] = delta[row]
      ]_vars

\* C9 witness: the first replay of the first batch of a later epoch is about to
\* run, after a final batch that was smaller than batch_size, and the last row
\* of delta still holds the non-zero value an earlier full batch left.
C9_Witness ==
    /\ tpc = "replay"
    /\ replay = 0
    /\ epoch >= 1
    /\ i = 0
    /\ dataSize % batch_size # 0
    /\ delta[batch_size] # 0
    /\ delta[1] # delta[batch_size]

\* ------------------------------------------------- claims: SmoothedModel

\* the round of _sample_under_noise that is running, as its sample count
RoundSamples == IF spc = "sample0" THEN n0 ELSE n

\* C3: the count vector _sample_under_noise returns has no negative entry and
\* sums to exactly the number of samples asked for, in both rounds; while a
\* round runs, no chunk is larger than batch_size and every draw is either
\* counted once or still waiting in a chunk.
C3_CountsSumToN ==
    /\ spc \in {"sample0", "sample1"} =>
         /\ \A j \in 1 .. Len(noise_batches) :
              0 <= noise_batches[j] /\ noise_batches[j] <= sbatch
         /\ Total(counts) + SumSeq(noise_batches) = RoundSamples
         /\ \A k \in Classes : counts[k] >= 0
    /\ spc \in {"start1", "sample1", "decide", "done"} =>
         /\ Total(counts_0) = n0
         /\ \A k \in Classes : counts_0[k] >= 0
    /\ spc \in {"decide", "done"} =>
         /\ Total(counts_n) = n
         /\ \A k \in Classes : counts_n[k] >= 0

\* C3 witness: both rounds have returned, the first with batch_size not
\* dividing its sample count, the second with batch_size above its sample count.
C3_Witness ==
    /\ spc = "done"
    /\ n0 > sbatch
    /\ n0 % sbatch # 0
    /\ sbatch > n
    /\ numClasses >= 2
    /\ counts_0[1] >= 1

\* C4: certify returns (ABSTAIN, 0) when p_a <= 0.5 and otherwise a class
\* index with the radius sigma * Phi^-1(p_a), which is strictly positive; the
\* radius is 0 exactly when the result is ABSTAIN and is never negative.
C4_CertifyResult ==
    spc = "done" =>
        /\ 2 * p_a <= PGrid => result = <<ABSTAIN, 0>>
        /\ 2 * p_a > PGrid =>
             /\ result[1] \in Classes
             /\ result[1] # ABSTAIN
             /\ result[2] = sigma * NormPpf(p_a)
             /\ result[2] > 0
        /\ (result[2] = 0) <=> (result[1] = ABSTAIN)
        /\ result[2] >= 0

\* C4 witness: certify has returned a class with a positive radius.
C4_Witness ==
    /\ spc = "done"
    /\ result[1] # ABSTAIN
    /\ result[2] > 0
    /\ 2 * p_a > PGrid

\* C4, second witness state (the abstaining side, at the boundary p_a = 0.5)
C4_WitnessAbstain ==
    /\ spc = "done"
    /\ 2 * p_a = PGrid
    /\ result = <<ABSTAIN, 0>>

\* C10: c is the class with the most votes in the first round, the lowest
\* index on a tie; p_a is the lower bound for the second round's votes for
\* that c out of n; a result that is not ABSTAIN is c.
C10_ClassFromFirstRound ==
    spc \in {"decide", "done"} =>
        /\ c \in Classes
        /\ \A k \in Classes : counts_0[k] <= counts_0[c]
        /\ \A k \in Classes : k < c => counts_0[k] < counts_0[c]
        /\ p_a = ProportionConfintLower(counts_n[c], n, alpha)
        /\ spc = "done" /\ result[1] # ABSTAIN => result[1] = c

\* C10 witness: certify returned c without abstaining, after a first round in
\* which a class of higher index had as many votes as c.
C10_Witness ==
    /\ spc = "done"
    /\ result[1] = c
    /\ n0 >= 2
    /\ \E k \in Classes : k > c /\ counts_0[k] = counts_0[c]

\* ------------------------------------------------- claims: NeuralCleanse

InUnit(t) == \A e \in DOMAIN t : 0 <= t[e] /\ t[e] <= UnitScale

\* C2: every element of the current mask and of the current trigger lies in
\* [0, 1] at the end of every inner-loop pass (hence in every state between
\* passes), and so does every element of the returned mask and trigger.
C2_MaskTriggerInUnit ==
    /\ InUnit(mask)
    /\ InUnit(trigger)
    /\ npc = "done" =>
         /\ \A ch \in DOMAIN ret[1] : InUnit(ret[1][ch])
         /\ InUnit(ret[2])

\* C2 witness: the function has returned after at least two passes, in the
\* last of which the clamp pulled an element of mask back to 0.
C2_Witness ==
    /\ npc = "done"
    /\ passes >= 2
    /\ \E e \in MaskIdx : maskAfterOpt[e] - step_size * maskGrad[e] < 0
    /\ \E e \in MaskIdx : ret[1][1][e] = 0

\* C6 (as stated): in every pass the optimizer step changes the mask and the
\* trigger that were used for triggered_x (wherever the gradient is not
\* zero), and the sign step and the clamp then act on those updated tensors.
C6_BothStagesEveryPass ==
    passes >= 1 =>
        /\ \A e \in MaskIdx : maskGrad[e] # 0 => maskAfterOpt[e] # maskUsed[e]
        /\ \A e \in TriggerIdx : triggerGrad[e] # 0 => triggerAfterOpt[e] # triggerUsed[e]
        /\ mask = ClampUnit(SignStep(maskAfterOpt, maskGrad))
        /\ trigger = ClampUnit(SignStep(triggerAfterOpt, triggerGrad))

\* C8: when no inner-loop pass runs (niters = 0 or an empty data loader) the
\* function returns the trigger as initialized and the initial mask repeated
\* over the 3 channels.
C8_NoPassReturnsInit ==
    (npc = "done" /\ (niters = 0 \/ loaderLen = 0)) =>
        /\ ret[2] = trigger_init
        /\ DOMAIN ret[1] = 1 .. 3
        /\ \A ch \in 1 .. 3 : ret[1][ch] = mask_init

\* C8 witness: the function has returned after iterating over an empty data
\* loader, with a mask and a trigger whose initial values are not 0.
C8_Witness ==
    /\ npc = "done"
    /\ niters >= 1
    /\ loaderLen = 0
    /\ passes = 0
    /\ \E e \in MaskIdx : mask_init[e] > 0
    /\ \E e \in TriggerIdx : trigger_init[e] > 0

====
